---- MODULE Spec2Model ----
(***************************************************************************)
(* The TriggerAutomation action of the Eeko Stream Deck plugin             *)
(* (src/src/actions/trigger-automation.ts) as a state machine.             *)
(*                                                                         *)
(* One TriggerAutomation object is registered for every button instance    *)
(* (SingletonAction, plugin entry), so timeoutHandles is one set for all   *)
(* instances.  Every async handler is a task; tasks interleave where a     *)
(* handler is suspended: on a service call (fetch, response.json) and on   *)
(* the settings read or write.  setTitle, setImage, showAlert and          *)
(* sendToPropertyInspector write to the open host connection and settle    *)
(* without a round trip, so the code between two suspensions is one step.  *)
(*                                                                         *)
(* A string is a sequence of tokens, + is \o, undefined and "" are both    *)
(* the empty sequence (the source only ever tests them for truthiness).    *)
(* An API key is a sequence of one-character tokens.                       *)
(***************************************************************************)
EXTENDS Integers, Sequences, FiniteSets, TLC

\* ---------------------------------------------------------------- bounds
MaxHandlers == 1        \* event handlers in flight at once
MaxTimers == 2          \* key-up cycles alive at once (handler in flight or reset pending)

\* ------------------------------------------------------ program constants
MinKeyLength == 10          \* apiKey.length > 10
MaxKeyLength == 200         \* apiKey.length < 200
SuccessResetDelay == 2000   \* setTimeout(..., 2000)
ErrorResetDelay == 3000     \* setTimeout(..., 3000)

RECURSIVE GCD(_, _)
GCD(a, b) == IF b = 0 THEN a ELSE GCD(b, a % b)
\* the clock advances in steps that hit every timer's due time exactly
TimeStep == GCD(SuccessResetDelay, ErrorResetDelay)

\* ---------------------------------------------------------------- strings
Undefined == <<>>
Truthy(s) == s # <<>>
Includes(s, token) == \E j \in 1..Len(s) : s[j] = token
Repeat(c, n) == [j \in 1..n |-> c]

\* two button instances of the action on the device; the property inspector is
\* open on one of them
Instances == {"A", "B"}
Inspected == "A"
NoInstance == ""

DefaultImage == <<"imgs/actions/automation/key">>
PressedImage == <<"imgs/actions/automation/key-pressed">>

ConfigureTitle == <<"Configure\nAutomation">>
SelectTitle == <<"Select\nAutomation">>
MissingKeyTitle == <<"Missing\nAPI Key">>
NoAutomationTitle == <<"No Automation\nSelected">>
TriggeringTitle(name) == <<"Triggering\n">> \o name
TriggeredTitle(name) == <<"Triggered!\n">> \o name
ErrorTitle(errorMessage) == <<"Error\n">> \o errorMessage

\* ----------------------------------------------------------------- inputs
\* AutomationSettings a host event can carry: both fields, one, or neither
AutomationIds == {Undefined, <<"auto-1">>}
AutomationNames == {Undefined, <<"Daily Report">>}
SettingsSet == [automationId : AutomationIds, automationName : AutomationNames]
NoSettings == [automationId |-> Undefined, automationName |-> Undefined]

\* keys the property inspector can send: well formed, too short, bad character
GoodKey == Repeat("k", MinKeyLength + 1)
ShortKey == Repeat("k", MinKeyLength)
BadCharKey == Repeat("k", MinKeyLength) \o <<"@">>
KeySamples == {Undefined, GoodKey, ShortKey, BadCharKey}
\* the character class [a-zA-Z0-9_-]
KeyChars ==
    {"a", "b", "c", "d", "e", "f", "g", "h", "i", "j", "k", "l", "m",
     "n", "o", "p", "q", "r", "s", "t", "u", "v", "w", "x", "y", "z",
     "A", "B", "C", "D", "E", "F", "G", "H", "I", "J", "K", "L", "M",
     "N", "O", "P", "Q", "R", "S", "T", "U", "V", "W", "X", "Y", "Z",
     "0", "1", "2", "3", "4", "5", "6", "7", "8", "9", "_", "-"}

\* what fetch can produce: a response (ok or not, with a status) or a rejection
\* with an Error whose message is the runtime's
Responses ==
    { [kind |-> "response", status |-> 200, message |-> Undefined],
      [kind |-> "response", status |-> 401, message |-> Undefined],
      [kind |-> "response", status |-> 403, message |-> Undefined],
      [kind |-> "response", status |-> 500, message |-> Undefined],
      [kind |-> "reject", status |-> 0, message |-> <<"fetch failed">>],
      [kind |-> "reject", status |-> 0,
       message |-> <<"connect ECONNREFUSED ", "API", " host">>] }
\* variant of ResponseOk that takes every response for a success
ResponseOkAny(r) == r.kind = "response"
ResponseOk(r) == r.kind = "response" /\ r.status >= 200 /\ r.status <= 299

\* what response.json() can produce: a body (with or without automations) or a throw
Bodies ==
    { [parsed |-> TRUE, automations |-> <<"auto-1">>, message |-> Undefined],
      [parsed |-> TRUE, automations |-> <<>>, message |-> Undefined],
      [parsed |-> FALSE, automations |-> <<>>,
       message |-> <<"Unexpected token < in JSON at position 0">>] }

\* payload.action of a property inspector message
PluginActions == {"saveApiKey", "testApiKey", "fetchAutomations", "getApiKey", "unknown"}

\* ------------------------------------------------------------------ state
VARIABLES
    apiKey,          \* globalSettings.apiKey in the host's store
    visible,         \* instance -> it is on the device (appeared, not disappeared)
    settings,        \* instance -> the settings the host holds and sends with events
    title,           \* instance -> the last title set
    image,           \* instance -> the last image set
    timeoutHandles,  \* this.timeoutHandles, the one set of the singleton
    timers,          \* handle -> pending timer made by setTimeout, with its callback's closure
    tasks,           \* slot -> async event handler in flight
    out              \* what the step just taken sent out: alert, service call, relay

vars == <<apiKey, visible, settings, title, image, timeoutHandles, timers, tasks, out>>

Put(f, k, v) == [x \in DOMAIN f \cup {k} |-> IF x = k THEN v ELSE f[x]]
Remove(f, k) == [x \in DOMAIN f \ {k} |-> f[x]]
FreeIn(used, max) == CHOOSE n \in 1..max : n \notin used /\ \A m \in 1..(n - 1) : m \in used

NoNet == <<>>
\* the outbound calls: the endpoint, the x-eeko-api-key header, the automation
ListCall(key) == <<"GET /api/triggers/automations", key>>
\* variant of TriggerCall that sends no credential
TriggerCallNoKey(key, s) == <<"POST /api/triggers/streamdeck", Undefined, s.automationId>>
TriggerCall(key, s) == <<"POST /api/triggers/streamdeck", key, s.automationId>>
NoRelay == <<>>
NoError == <<>>
NoOutput == [alert |-> NoInstance, net |-> NoNet, relay |-> NoRelay, error |-> NoError]

\* ---------------------------------------------------------- pure functions
\* variant of validateApiKey with inclusive length limits
validateApiKeyInclusive(key) ==
    /\ Len(key) >= MinKeyLength
    /\ Len(key) <= MaxKeyLength
    /\ Len(key) >= 1
    /\ \A j \in 1..Len(key) : key[j] \in KeyChars

\* validateApiKey: length > 10, length < 200, /^[a-zA-Z0-9_-]+$/ (keys are
\* strings here, so typeof is not modelled)
validateApiKey(key) ==
    /\ Len(key) > MinKeyLength
    /\ Len(key) < MaxKeyLength
    /\ Len(key) >= 1
    /\ \A j \in 1..Len(key) : key[j] \in KeyChars

\* getApiKey: the try branch; the host answers every getGlobalSettings request
getApiKey == apiKey

\* the title onWillAppear sets
AppearTitle(s) ==
    IF Truthy(s.automationName) THEN s.automationName ELSE ConfigureTitle

\* the title onDidReceiveSettings sets, key being what getApiKey returned
SettingsTitle(s, key) ==
    IF Truthy(s.automationName) THEN s.automationName
    ELSE IF Truthy(key) THEN SelectTitle ELSE ConfigureTitle

\* onDidReceiveSettings: apiKey && !settings.automationId
SettingsFetches(s, key) == Truthy(key) /\ ~Truthy(s.automationId)

\* variant of KeyUpBranch that tests automationId alone
KeyUpBranchIdOnly(s, key) ==
    IF ~Truthy(key) THEN "missingKey"
    ELSE IF ~Truthy(s.automationId) THEN "noAutomation"
    ELSE "trigger"

\* onKeyUp: the branch taken once getApiKey has returned
KeyUpBranch(s, key) ==
    IF ~Truthy(key) THEN "missingKey"
    ELSE IF ~Truthy(s.automationId) \/ ~Truthy(s.automationName) THEN "noAutomation"
    ELSE "trigger"

\* onKeyUp: the title set first on each branch
KeyUpTitle(s, key) ==
    CASE KeyUpBranch(s, key) = "missingKey" -> MissingKeyTitle
      [] KeyUpBranch(s, key) = "noAutomation" -> NoAutomationTitle
      [] OTHER -> TriggeringTitle(s.automationName)

\* onKeyUp: what the try block throws for a fetch outcome that is not ok
ThrownError(resp) ==
    IF resp.kind = "response"
    THEN [isError |-> TRUE, message |-> <<"Failed to trigger automation">>]
    ELSE [isError |-> TRUE, message |-> resp.message]

\* variant of ErrorLabel that shows the message of the error itself
ErrorLabelRaw(error) == error.message

\* onKeyUp catch: errorMessage
ErrorLabel(error) ==
    IF error.isError
    THEN (IF Includes(error.message, "API") THEN <<"API Error">> ELSE <<"Failed">>)
    ELSE <<"Error">>

\* the delay each branch passes to setTimeout
ResetDelay(kind) == IF kind = "success" THEN SuccessResetDelay ELSE ErrorResetDelay

\* the title each reset callback sets, s being the settings its key-up captured
ResetTitle(kind, s) ==
    CASE kind = "missingKey" -> ConfigureTitle
      [] kind = "noAutomation" -> SelectTitle
      [] kind = "success" -> s.automationName
      [] OTHER -> IF Truthy(s.automationName) THEN s.automationName ELSE ConfigureTitle

\* variant of ResetSetsImage with which no callback resets the image
ResetSetsImageNever(kind) == FALSE

\* the success callback also resets the image
ResetSetsImage(kind) == kind = "success"

\* cleanupTimeouts, run for the disappear of instance i: the timers that
\* clearTimeout stops (every handle of the set), and the set after clear()
\* variant of ClearedTimers with which cleanup stops no timer
ClearedNone(i) == {}
ClearedTimers(i) == {t \in DOMAIN timers : t \in timeoutHandles}
HandlesAfterCleanup(i) == {}

\* variant of KeyDownImage that swaps to the pressed image on key-down
KeyDownImagePressed(i) == [image EXCEPT ![i] = PressedImage]

\* onKeyDown: the empty body sets neither title nor image
KeyDownTitle(i) == title
KeyDownImage(i) == image

\* variant of SaveAccepts that skips the format check
SaveAcceptsAll(key) == TRUE

\* saveApiKey: throws unless validateApiKey
SaveAccepts(key) == validateApiKey(key)

\* ------------------------------------------------------------ relay payloads
ConnectionError == <<"Connection error - check your internet connection">>

\* handleTestApiKey: the apiKeyTested payload for each outcome of the list call
ApiKeyTested(resp) ==
    IF ResponseOk(resp) THEN <<"apiKeyTested", TRUE, Undefined>>
    ELSE IF resp.kind = "reject" THEN <<"apiKeyTested", FALSE, ConnectionError>>
    ELSE IF resp.status = 401 THEN <<"apiKeyTested", FALSE, <<"Invalid or expired API key">>>>
    ELSE IF resp.status = 403
         THEN <<"apiKeyTested", FALSE, <<"API key does not have required permissions">>>>
    ELSE <<"apiKeyTested", FALSE, <<"API error: ", ToString(resp.status)>>>>

\* handleFetchAutomations: the message of what its try block throws
FetchThrown(resp) ==
    IF resp.kind = "response"
    THEN <<"Failed to fetch automations: ", ToString(resp.status)>>
    ELSE resp.message

\* handleFetchAutomations catch: (error as Error).message || 'Failed to load automations'
FetchErrorMessage(message) ==
    IF Truthy(message) THEN message ELSE <<"Failed to load automations">>

\* responseData.automations || []
AutomationsLoaded(body) == <<"automationsLoaded", body.automations>>

\* validateApiKeyAndFetchAutomations: the apiKeyError payload
ValidateFailureRelay(resp) ==
    IF resp.kind = "response"
    THEN <<"apiKeyError", <<"API key validation failed: ", ToString(resp.status)>>>>
    ELSE <<"apiKeyError", ConnectionError>>

\* ------------------------------------------------------------------- Init
Init ==
    /\ apiKey = Undefined
    /\ visible = [i \in Instances |-> FALSE]
    /\ settings = [i \in Instances |-> NoSettings]
    /\ title = [i \in Instances |-> Undefined]
    /\ image = [i \in Instances |-> DefaultImage]
    /\ timeoutHandles = {}
    /\ timers = <<>>
    /\ tasks = <<>>
    /\ out = NoOutput

KeyUpTasks == {h \in DOMAIN tasks : tasks[h].op = "onKeyUp"}
CanStart == Cardinality(DOMAIN tasks) < MaxHandlers
NewSlot == FreeIn(DOMAIN tasks, MaxHandlers)

Task(op, pc, i, s, key) ==
    [op |-> op, pc |-> pc, inst |-> i, settings |-> s, apiKey |-> key, old |-> FALSE]

\* ----------------------------------------------------- appear / disappear
onWillAppear(i) ==
    /\ ~visible[i]
    /\ visible' = [visible EXCEPT ![i] = TRUE]
    /\ title' = [title EXCEPT ![i] = AppearTitle(settings[i])]
    /\ out' = NoOutput
    /\ UNCHANGED <<apiKey, settings, image, timeoutHandles, timers, tasks>>

\* onWillDisappear -> cleanupTimeouts.  The handlers of the instance that are
\* still in flight are marked old: their key-up began before this disappear.
onWillDisappear(i) ==
    /\ visible[i]
    /\ visible' = [visible EXCEPT ![i] = FALSE]
    /\ timers' = [t \in DOMAIN timers \ ClearedTimers(i) |-> timers[t]]
    /\ timeoutHandles' = HandlesAfterCleanup(i)
    /\ tasks' = [h \in DOMAIN tasks |->
                    IF tasks[h].inst = i THEN [tasks[h] EXCEPT !.old = TRUE]
                    ELSE tasks[h]]
    /\ out' = NoOutput
    /\ UNCHANGED <<apiKey, settings, title, image>>

\* ----------------------------------------------------------------- key-down
onKeyDown(i) ==
    /\ visible[i]
    /\ title' = KeyDownTitle(i)
    /\ image' = KeyDownImage(i)
    /\ out' = NoOutput
    /\ UNCHANGED <<apiKey, visible, settings, timeoutHandles, timers, tasks>>

\* ------------------------------------------------------------------- key-up
\* setTimeout and timeoutHandles.add, as every branch of onKeyUp ends
\* variant of NewHandle that hands out the same handle again
NewHandleFirst == FreeIn({}, MaxTimers)
NewHandle == FreeIn(DOMAIN timers \cup timeoutHandles, MaxTimers)
Timer(t, kind) ==
    [inst |-> t.inst, kind |-> kind, settings |-> t.settings,
     delay |-> ResetDelay(kind), elapsed |-> 0, old |-> t.old]

\* the event arrives: settings captured, getApiKey awaited
onKeyUp(i) ==
    /\ visible[i]
    /\ CanStart
    /\ Cardinality(KeyUpTasks) + Cardinality(DOMAIN timers) < MaxTimers
    /\ tasks' = Put(tasks, NewSlot, Task("onKeyUp", "getApiKey", i, settings[i], Undefined))
    /\ out' = NoOutput
    /\ UNCHANGED <<apiKey, visible, settings, title, image, timeoutHandles, timers>>

\* getApiKey returned.  Without key or automation: failure title, alert, reset
\* scheduled, return.  Otherwise "Triggering" title and the trigger call.
KeyUpApiKey(h) ==
    /\ h \in KeyUpTasks
    /\ tasks[h].pc = "getApiKey"
    /\ LET t == tasks[h]
           key == getApiKey
           branch == KeyUpBranch(t.settings, key)
       IN /\ title' = [title EXCEPT ![t.inst] = KeyUpTitle(t.settings, key)]
          /\ IF branch = "trigger"
             THEN /\ tasks' = [tasks EXCEPT ![h] = [t EXCEPT !.apiKey = key, !.pc = "response"]]
                  /\ out' = [NoOutput EXCEPT
                                !.net = TriggerCall(key, t.settings)]
                  /\ UNCHANGED <<timers, timeoutHandles>>
             ELSE /\ tasks' = Remove(tasks, h)
                  /\ timers' = Put(timers, NewHandle, Timer(t, branch))
                  /\ timeoutHandles' = timeoutHandles \cup {NewHandle}
                  /\ out' = [NoOutput EXCEPT !.alert = t.inst]
    /\ UNCHANGED <<apiKey, visible, settings, image>>

\* fetch settled.  ok: "Triggered!" title, pressed image, reset scheduled.
\* Otherwise the catch block: error title, alert, reset scheduled.
KeyUpResponse(h, resp) ==
    /\ h \in KeyUpTasks
    /\ tasks[h].pc = "response"
    /\ LET t == tasks[h]
           kind == IF ResponseOk(resp) THEN "success" ELSE "error"
       IN /\ IF ResponseOk(resp)
             THEN /\ title' = [title EXCEPT ![t.inst] = TriggeredTitle(t.settings.automationName)]
                  /\ image' = [image EXCEPT ![t.inst] = PressedImage]
                  /\ out' = NoOutput
             ELSE /\ title' = [title EXCEPT ![t.inst] = ErrorTitle(ErrorLabel(ThrownError(resp)))]
                  /\ image' = image
                  /\ out' = [NoOutput EXCEPT !.alert = t.inst]
          /\ timers' = Put(timers, NewHandle, Timer(t, kind))
          /\ timeoutHandles' = timeoutHandles \cup {NewHandle}
    /\ tasks' = Remove(tasks, h)
    /\ UNCHANGED <<apiKey, visible, settings>>

\* ------------------------------------------------------- settings changed
\* the event arrives with the new settings.  With a name the title is set and
\* getApiKey (line 121) awaited; without, getApiKey (line 112) is awaited first.
onDidReceiveSettings(i, s) ==
    /\ visible[i]
    /\ CanStart
    /\ settings' = [settings EXCEPT ![i] = s]
    /\ IF Truthy(s.automationName)
       THEN /\ title' = [title EXCEPT ![i] = SettingsTitle(s, Undefined)]
            /\ tasks' = Put(tasks, NewSlot,
                            Task("onDidReceiveSettings", "getApiKey", i, s, Undefined))
       ELSE /\ title' = title
            /\ tasks' = Put(tasks, NewSlot,
                            Task("onDidReceiveSettings", "getApiKeyForTitle", i, s, Undefined))
    /\ out' = NoOutput
    /\ UNCHANGED <<apiKey, visible, image, timeoutHandles, timers>>

SettingsTasks == {h \in DOMAIN tasks : tasks[h].op = "onDidReceiveSettings"}

\* getApiKey of line 112 returned: "Select" or "Configure" title, then the
\* getApiKey of line 121 is awaited
SettingsSetTitle(h) ==
    /\ h \in SettingsTasks
    /\ tasks[h].pc = "getApiKeyForTitle"
    /\ title' = [title EXCEPT ![tasks[h].inst] = SettingsTitle(tasks[h].settings, getApiKey)]
    /\ tasks' = [tasks EXCEPT ![h] = [@ EXCEPT !.apiKey = getApiKey, !.pc = "getApiKey"]]
    /\ out' = NoOutput
    /\ UNCHANGED <<apiKey, visible, settings, image, timeoutHandles, timers>>

\* getApiKey of line 121 returned: validateApiKeyAndFetchAutomations issues its
\* list call, or the handler returns
SettingsApiKey(h) ==
    /\ h \in SettingsTasks
    /\ tasks[h].pc = "getApiKey"
    /\ IF SettingsFetches(tasks[h].settings, getApiKey)
       THEN /\ tasks' = [tasks EXCEPT ![h] = [@ EXCEPT !.apiKey = getApiKey, !.pc = "response"]]
            /\ out' = [NoOutput EXCEPT
                          !.net = ListCall(getApiKey)]
       ELSE /\ tasks' = Remove(tasks, h)
            /\ out' = NoOutput
    /\ UNCHANGED <<apiKey, visible, settings, title, image, timeoutHandles, timers>>

\* validateApiKeyAndFetchAutomations: the list call settled
SettingsResponse(h, resp) ==
    /\ h \in SettingsTasks
    /\ tasks[h].pc = "response"
    /\ IF ResponseOk(resp)
       THEN /\ tasks' = [tasks EXCEPT ![h].pc = "json"]
            /\ out' = NoOutput
       ELSE /\ tasks' = Remove(tasks, h)
            /\ out' = [NoOutput EXCEPT
                          !.relay = ValidateFailureRelay(resp)]
    /\ UNCHANGED <<apiKey, visible, settings, title, image, timeoutHandles, timers>>

\* validateApiKeyAndFetchAutomations: response.json() settled
SettingsJson(h, body) ==
    /\ h \in SettingsTasks
    /\ tasks[h].pc = "json"
    /\ tasks' = Remove(tasks, h)
    /\ out' = [NoOutput EXCEPT
                  !.relay = IF body.parsed THEN AutomationsLoaded(body)
                            ELSE <<"apiKeyError", ConnectionError>>]
    /\ UNCHANGED <<apiKey, visible, settings, title, image, timeoutHandles, timers>>

\* ------------------------------------------------- property inspector messages
PluginTasks == {h \in DOMAIN tasks : tasks[h].op = "onSendToPlugin"}
PluginTask(pc, key) == Task("onSendToPlugin", pc, NoInstance, NoSettings, key)

\* the message arrives: the switch on payload.action, up to the first await
onSendToPlugin(action, key) ==
    /\ CanStart
    /\ CASE action = "saveApiKey" /\ Truthy(key) /\ SaveAccepts(key) ->
              \* saveApiKey awaits getGlobalSettings
              /\ tasks' = Put(tasks, NewSlot, PluginTask("saveRead", key))
              /\ out' = NoOutput
         [] action = "saveApiKey" /\ Truthy(key) /\ ~SaveAccepts(key) ->
              \* saveApiKey throws 'Invalid API key format': the handler rejects
              /\ tasks' = tasks
              /\ out' = [NoOutput EXCEPT !.error = <<"Invalid API key format">>]
         [] action \in {"testApiKey", "fetchAutomations"} /\ Truthy(key) ->
              \* handleTestApiKey / handleFetchAutomations issue their list call
              /\ tasks' = Put(tasks, NewSlot,
                              PluginTask(IF action = "testApiKey" THEN "testResponse"
                                         ELSE "fetchResponse", key))
              /\ out' = [NoOutput EXCEPT !.net = ListCall(key)]
         [] action = "getApiKey" ->
              \* handleGetApiKey awaits getApiKey
              /\ tasks' = Put(tasks, NewSlot, PluginTask("getApiKey", Undefined))
              /\ out' = NoOutput
         [] OTHER ->
              \* no key in the message, or an unknown action
              /\ tasks' = tasks
              /\ out' = NoOutput
    /\ UNCHANGED <<apiKey, visible, settings, title, image, timeoutHandles, timers>>

\* variant of SaveWrite that goes on to the test without persisting the key
SaveWriteSkipped(h) ==
    /\ h \in PluginTasks
    /\ tasks[h].pc = "saveRead"
    /\ tasks' = [tasks EXCEPT ![h].pc = "saveWritten"]
    /\ out' = NoOutput
    /\ UNCHANGED <<apiKey, visible, settings, title, image, timeoutHandles, timers>>

\* saveApiKey: getGlobalSettings returned, setGlobalSettings({...globalSettings, apiKey})
SaveWrite(h) ==
    /\ h \in PluginTasks
    /\ tasks[h].pc = "saveRead"
    /\ apiKey' = tasks[h].apiKey
    /\ tasks' = [tasks EXCEPT ![h].pc = "saveWritten"]
    /\ out' = NoOutput
    /\ UNCHANGED <<visible, settings, title, image, timeoutHandles, timers>>

\* saveApiKey returned: handleTestApiKey issues its list call
SaveTest(h) ==
    /\ h \in PluginTasks
    /\ tasks[h].pc = "saveWritten"
    /\ tasks' = [tasks EXCEPT ![h].pc = "testResponse"]
    /\ out' = [NoOutput EXCEPT !.net = ListCall(tasks[h].apiKey)]
    /\ UNCHANGED <<apiKey, visible, settings, title, image, timeoutHandles, timers>>

\* handleTestApiKey: the list call settled and apiKeyTested is relayed; for a
\* valid key handleFetchAutomations then issues its own list call
TestResponse(h, resp) ==
    /\ h \in PluginTasks
    /\ tasks[h].pc = "testResponse"
    /\ IF ResponseOk(resp)
       THEN /\ tasks' = [tasks EXCEPT ![h].pc = "fetchResponse"]
            /\ out' = [NoOutput EXCEPT
                          !.relay = ApiKeyTested(resp), !.net = ListCall(tasks[h].apiKey)]
       ELSE /\ tasks' = Remove(tasks, h)
            /\ out' = [NoOutput EXCEPT !.relay = ApiKeyTested(resp)]
    /\ UNCHANGED <<apiKey, visible, settings, title, image, timeoutHandles, timers>>

\* handleFetchAutomations: the list call settled
FetchResponse(h, resp) ==
    /\ h \in PluginTasks
    /\ tasks[h].pc = "fetchResponse"
    /\ IF ResponseOk(resp)
       THEN /\ tasks' = [tasks EXCEPT ![h].pc = "fetchJson"]
            /\ out' = NoOutput
       ELSE /\ tasks' = Remove(tasks, h)
            /\ out' = [NoOutput EXCEPT
                          !.relay = <<"automationsError", FetchErrorMessage(FetchThrown(resp))>>]
    /\ UNCHANGED <<apiKey, visible, settings, title, image, timeoutHandles, timers>>

\* handleFetchAutomations: response.json() settled
FetchJson(h, body) ==
    /\ h \in PluginTasks
    /\ tasks[h].pc = "fetchJson"
    /\ tasks' = Remove(tasks, h)
    /\ out' = [NoOutput EXCEPT
                  !.relay = IF body.parsed THEN AutomationsLoaded(body)
                            ELSE <<"automationsError", FetchErrorMessage(body.message)>>]
    /\ UNCHANGED <<apiKey, visible, settings, title, image, timeoutHandles, timers>>

\* handleGetApiKey: getApiKey returned, apiKeyLoaded is relayed
GetApiKeyRelay(h) ==
    /\ h \in PluginTasks
    /\ tasks[h].pc = "getApiKey"
    /\ tasks' = Remove(tasks, h)
    /\ out' = [NoOutput EXCEPT !.relay = <<"apiKeyLoaded", getApiKey>>]
    /\ UNCHANGED <<apiKey, visible, settings, title, image, timeoutHandles, timers>>

\* ------------------------------------------------------------------ timers
Due == {t \in DOMAIN timers : timers[t].elapsed >= timers[t].delay}

\* the clock advances; a due callback runs before it advances further
Tick ==
    /\ timers # <<>>
    /\ Due = {}
    /\ timers' = [t \in DOMAIN timers |-> [timers[t] EXCEPT !.elapsed = @ + TimeStep]]
    /\ out' = NoOutput
    /\ UNCHANGED <<apiKey, visible, settings, title, image, timeoutHandles, tasks>>

\* a reset callback runs: setTitle, setImage on the success branch,
\* timeoutHandles.delete(timeout)
Reset(t) ==
    /\ t \in Due
    /\ title' = [title EXCEPT ![timers[t].inst] = ResetTitle(timers[t].kind, timers[t].settings)]
    /\ image' = IF ResetSetsImage(timers[t].kind)
                THEN [image EXCEPT ![timers[t].inst] = DefaultImage]
                ELSE image
    /\ timeoutHandles' = timeoutHandles \ {t}
    /\ timers' = Remove(timers, t)
    /\ out' = NoOutput
    /\ UNCHANGED <<apiKey, visible, settings, tasks>>

\* ------------------------------------------------------------------- Next
\* every handler of the class, on the inspected instance
Next ==
    \/ onWillAppear(Inspected)
    \/ onWillDisappear(Inspected)
    \/ onKeyDown(Inspected)
    \/ onKeyUp(Inspected)
    \/ \E h \in DOMAIN tasks : KeyUpApiKey(h)
    \/ \E h \in DOMAIN tasks, resp \in Responses : KeyUpResponse(h, resp)
    \/ \E s \in SettingsSet : onDidReceiveSettings(Inspected, s)
    \/ \E h \in DOMAIN tasks : SettingsSetTitle(h)
    \/ \E h \in DOMAIN tasks : SettingsApiKey(h)
    \/ \E h \in DOMAIN tasks, resp \in Responses : SettingsResponse(h, resp)
    \/ \E h \in DOMAIN tasks, body \in Bodies : SettingsJson(h, body)
    \/ \E action \in PluginActions, key \in KeySamples : onSendToPlugin(action, key)
    \/ \E h \in DOMAIN tasks : SaveWrite(h)
    \/ \E h \in DOMAIN tasks : SaveTest(h)
    \/ \E h \in DOMAIN tasks, resp \in Responses : TestResponse(h, resp)
    \/ \E h \in DOMAIN tasks, resp \in Responses : FetchResponse(h, resp)
    \/ \E h \in DOMAIN tasks, body \in Bodies : FetchJson(h, body)
    \/ \E h \in DOMAIN tasks : GetApiKeyRelay(h)
    \/ Tick
    \/ \E t \in DOMAIN timers : Reset(t)

Spec == Init /\ [][Next]_vars

\* the button lifecycle on both instances, over whatever the host has persisted
InitPersisted ==
    /\ apiKey \in {Undefined, GoodKey}
    /\ visible = [i \in Instances |-> FALSE]
    /\ settings \in [Instances -> SettingsSet]
    /\ title = [i \in Instances |-> Undefined]
    /\ image = [i \in Instances |-> DefaultImage]
    /\ timeoutHandles = {}
    /\ timers = <<>>
    /\ tasks = <<>>
    /\ out = NoOutput

NextButtons ==
    \/ \E i \in Instances : onWillAppear(i)
    \/ \E i \in Instances : onWillDisappear(i)
    \/ \E i \in Instances : onKeyDown(i)
    \/ \E i \in Instances : onKeyUp(i)
    \/ \E h \in DOMAIN tasks : KeyUpApiKey(h)
    \/ \E h \in DOMAIN tasks, resp \in Responses : KeyUpResponse(h, resp)
    \/ Tick
    \/ \E t \in DOMAIN timers : Reset(t)

SpecButtons == InitPersisted /\ [][NextButtons]_vars

\* the configuration surface: the inspected instance and its property inspector
NextInspector ==
    \/ onWillAppear(Inspected)
    \/ onWillDisappear(Inspected)
    \/ \E s \in SettingsSet : onDidReceiveSettings(Inspected, s)
    \/ \E h \in DOMAIN tasks : SettingsSetTitle(h)
    \/ \E h \in DOMAIN tasks : SettingsApiKey(h)
    \/ \E h \in DOMAIN tasks, resp \in Responses : SettingsResponse(h, resp)
    \/ \E h \in DOMAIN tasks, body \in Bodies : SettingsJson(h, body)
    \/ \E action \in PluginActions, key \in KeySamples : onSendToPlugin(action, key)
    \/ \E h \in DOMAIN tasks : SaveWrite(h)
    \/ \E h \in DOMAIN tasks : SaveTest(h)
    \/ \E h \in DOMAIN tasks, resp \in Responses : TestResponse(h, resp)
    \/ \E h \in DOMAIN tasks, resp \in Responses : FetchResponse(h, resp)
    \/ \E h \in DOMAIN tasks, body \in Bodies : FetchJson(h, body)
    \/ \E h \in DOMAIN tasks : GetApiKeyRelay(h)

SpecInspector == Init /\ [][NextInspector]_vars

\* every fetch settles (the runtime's fetch gives up on a connection that
\* does not answer) and so does every response.json()
SpecInspectorFair ==
    /\ SpecInspector
    /\ WF_vars(\E h \in DOMAIN tasks, resp \in Responses : TestResponse(h, resp))
    /\ WF_vars(\E h \in DOMAIN tasks, resp \in Responses : FetchResponse(h, resp))
    /\ WF_vars(\E h \in DOMAIN tasks, body \in Bodies : FetchJson(h, body))

\* validateApiKey on its own: saveApiKey messages with keys at both length
\* limits, with every range of the character class, and with one character
\* replaced by a neighbour of the class
KeyLengths ==
    {0, 1, MinKeyLength - 1, MinKeyLength, MinKeyLength + 1,
     MaxKeyLength - 1, MaxKeyLength, MaxKeyLength + 1}
ClassChars == {"a", "z", "A", "Z", "0", "9", "_", "-"}
OtherChars == {"@", "[", "/", ":", " ", ".", "+", "="}
MixedKey == <<"e", "k", "o", "_", "a", "z", "A", "Z", "0", "9", "-">>
ReplaceAt(key, j, c) == [key EXCEPT ![j] = c]
ValidateKeys ==
    {Repeat("k", n) : n \in KeyLengths}
    \cup {MixedKey}
    \cup {ReplaceAt(GoodKey, 1, c) : c \in ClassChars}
    \cup {ReplaceAt(GoodKey, j, c) : j \in {1, Len(GoodKey) \div 2, Len(GoodKey)}, c \in OtherChars}

NextValidate ==
    \/ \E key \in ValidateKeys : onSendToPlugin("saveApiKey", key)
    \/ \E h \in DOMAIN tasks : SaveWrite(h)
    \/ \E h \in DOMAIN tasks : SaveTest(h)
    \/ \E h \in DOMAIN tasks, resp \in Responses : TestResponse(h, resp)
    \/ \E h \in DOMAIN tasks, resp \in Responses : FetchResponse(h, resp)
    \/ \E h \in DOMAIN tasks, body \in Bodies : FetchJson(h, body)

SpecValidate == Init /\ [][NextValidate]_vars


\* ================================================================ claims
FailureLabels == {<<"API Error">>, <<"Failed">>}
FailureTitles == {MissingKeyTitle, NoAutomationTitle} \cup {ErrorTitle(l) : l \in FailureLabels}
HasAutomationRef(s) == Truthy(s.automationId) /\ Truthy(s.automationName)
\* settings that hold exactly one of automationId and automationName
Partial(s) == Truthy(s.automationId) # Truthy(s.automationName)
\* the timers a step has just made
NewTimers == DOMAIN timers' \ DOMAIN timers
TimersOf(i) == {t \in DOMAIN timers : timers[t].inst = i}
TasksOf(i) == {h \in DOMAIN tasks : tasks[h].inst = i}

\* C1: once an instance has disappeared, no reset that belongs to a key-up
\* begun before the disappear sets its title or image any more, whatever stage
\* the key-up had reached.
C1_NoResetAfterDisappear ==
    [][\A t \in DOMAIN timers : Reset(t) => ~timers[t].old]_vars

\* C2: a disappear of instance i cancels the pending resets of i and only
\* those: every reset of another, visible instance stays pending and
\* registered.
C2_DisappearCancelsOwnResetsOnly ==
    [][\A i \in Instances : onWillDisappear(i) =>
          \A t \in DOMAIN timers :
              IF timers[t].inst = i
              THEN t \notin DOMAIN timers'
              ELSE visible[timers[t].inst] =>
                      (t \in DOMAIN timers' /\ t \in timeoutHandles')]_vars

\* C3: no failure title stays for ever on an instance that is not torn down:
\* while one is shown on a visible instance, a handler of that instance is
\* still in flight or a reset of that instance is pending to replace it.
C3_FailureTitleHasReset ==
    \A i \in Instances :
        (visible[i] /\ title[i] \in FailureTitles) =>
            (TimersOf(i) # {} \/ TasksOf(i) # {})

\* C4: when the trigger call of a key-up returns success the title becomes
\* "Triggered!\n<name>" and the image the pressed image, and a reset is
\* scheduled that runs exactly 2000 ms later and sets the title to <name> and
\* the image to the default image.
C4_TriggerSuccess ==
    [][/\ \A h \in DOMAIN tasks, resp \in Responses :
              (KeyUpResponse(h, resp) /\ ResponseOk(resp)) =>
                  /\ Truthy(tasks[h].apiKey) /\ HasAutomationRef(tasks[h].settings)
                  /\ title'[tasks[h].inst] = <<"Triggered!\n">> \o tasks[h].settings.automationName
                  /\ image'[tasks[h].inst] = PressedImage
                  /\ \E t \in NewTimers :
                        /\ t \in timeoutHandles'
                        /\ timers'[t].kind = "success"
                        /\ timers'[t].inst = tasks[h].inst
                        /\ timers'[t].settings = tasks[h].settings
                        /\ timers'[t].delay - timers'[t].elapsed = SuccessResetDelay
       /\ \A t \in DOMAIN timers :
              timers[t].kind = "success" =>
                  /\ timers[t].elapsed <= SuccessResetDelay
                  /\ Reset(t) =>
                        /\ timers[t].elapsed = SuccessResetDelay
                        /\ title'[timers[t].inst] = timers[t].settings.automationName
                        /\ image'[timers[t].inst] = DefaultImage]_vars

\* C4 witness: 2000 ms after a successful trigger, the reset about to run
C4_Witness ==
    \E t \in DOMAIN timers :
        /\ timers[t].kind = "success"
        /\ timers[t].elapsed = SuccessResetDelay
        /\ title[timers[t].inst] = TriggeredTitle(timers[t].settings.automationName)
        /\ image[timers[t].inst] = PressedImage

\* C5: when the trigger call of a key-up fails (status not ok, or no response)
\* the title becomes "Error\n" and one of the labels "API Error" and "Failed",
\* with no text of the underlying error in it, an alert is shown, and a reset
\* is scheduled that runs exactly 3000 ms later and sets the title to the
\* automation name, or to "Configure\nAutomation" when there is none.
C5_TriggerFailure ==
    [][/\ \A h \in DOMAIN tasks, resp \in Responses :
              (KeyUpResponse(h, resp) /\ ~ResponseOk(resp)) =>
                  /\ \E l \in FailureLabels : title'[tasks[h].inst] = <<"Error\n">> \o l
                  /\ \A j \in 1..Len(ThrownError(resp).message) :
                        ~Includes(title'[tasks[h].inst], ThrownError(resp).message[j])
                  /\ out'.alert = tasks[h].inst
                  /\ \E t \in NewTimers :
                        /\ t \in timeoutHandles'
                        /\ timers'[t].kind = "error"
                        /\ timers'[t].inst = tasks[h].inst
                        /\ timers'[t].settings = tasks[h].settings
                        /\ timers'[t].delay - timers'[t].elapsed = ErrorResetDelay
       /\ \A t \in DOMAIN timers :
              timers[t].kind = "error" =>
                  /\ timers[t].elapsed <= ErrorResetDelay
                  /\ Reset(t) =>
                        /\ timers[t].elapsed = ErrorResetDelay
                        /\ title'[timers[t].inst] =
                              IF Truthy(timers[t].settings.automationName)
                              THEN timers[t].settings.automationName
                              ELSE ConfigureTitle]_vars

\* C5 witness: a rejected trigger call whose message names the API has just
\* been turned into the "API Error" label, with the alert and the reset
C5_Witness ==
    \E t \in DOMAIN timers :
        /\ timers[t].kind = "error"
        /\ timers[t].elapsed = 0
        /\ title[timers[t].inst] = ErrorTitle(<<"API Error">>)
        /\ out.alert = timers[t].inst

\* C6: a key-up without stored credential sets "Missing\nAPI Key", shows an
\* alert, issues no trigger call and schedules a reset that runs exactly
\* 3000 ms later and sets "Configure\nAutomation"; with a credential but
\* automationId or automationName missing the same with "No Automation\n
\* Selected" and "Select\nAutomation".
C6_ConfigurationError ==
    [][/\ \A h \in DOMAIN tasks :
              (KeyUpApiKey(h) /\ (~Truthy(apiKey) \/ ~HasAutomationRef(tasks[h].settings))) =>
                  /\ title'[tasks[h].inst] =
                        IF ~Truthy(apiKey) THEN MissingKeyTitle ELSE NoAutomationTitle
                  /\ out'.alert = tasks[h].inst
                  /\ out'.net = NoNet
                  /\ h \notin DOMAIN tasks'
                  /\ \E t \in NewTimers :
                        /\ t \in timeoutHandles'
                        /\ timers'[t].kind =
                              IF ~Truthy(apiKey) THEN "missingKey" ELSE "noAutomation"
                        /\ timers'[t].inst = tasks[h].inst
                        /\ timers'[t].delay - timers'[t].elapsed = ErrorResetDelay
       /\ \A t \in DOMAIN timers :
              timers[t].kind \in {"missingKey", "noAutomation"} =>
                  /\ timers[t].elapsed <= ErrorResetDelay
                  /\ Reset(t) =>
                        /\ timers[t].elapsed = ErrorResetDelay
                        /\ title'[timers[t].inst] =
                              IF timers[t].kind = "missingKey" THEN ConfigureTitle
                              ELSE SelectTitle]_vars

\* C6 witness: 3000 ms after a key-up with a credential and only one of
\* automationId and automationName, the reset about to run
C6_Witness ==
    \E t \in DOMAIN timers :
        /\ timers[t].kind = "noAutomation"
        /\ timers[t].elapsed = ErrorResetDelay
        /\ Partial(timers[t].settings)
        /\ Truthy(apiKey)
        /\ title[timers[t].inst] = NoAutomationTitle

\* C7: a key-down changes neither title, image, stored credential, settings
\* nor the pending resets, and issues no network call.
C7_KeyDownNoOp ==
    [][\A i \in Instances : onKeyDown(i) =>
          /\ UNCHANGED <<title, image, apiKey, settings, timeoutHandles, timers, tasks>>
          /\ out'.net = NoNet]_vars

\* C7 witness: a key-down can arrive while the success state is shown and its
\* reset is pending
C7_Witness ==
    \E t \in DOMAIN timers :
        /\ visible[timers[t].inst]
        /\ t \in timeoutHandles
        /\ image[timers[t].inst] = PressedImage
        /\ title[timers[t].inst] = TriggeredTitle(timers[t].settings.automationName)
        /\ ENABLED onKeyDown(timers[t].inst)

\* the baseline title of C8: by AutomationRef and stored credential
Baseline(s, key) ==
    IF HasAutomationRef(s) THEN s.automationName
    ELSE IF Truthy(key) THEN SelectTitle ELSE ConfigureTitle

\* C8: the title that appear and settings-changed set is the baseline: the
\* name when the settings hold an AutomationRef, "Select\nAutomation" when
\* they hold none and a credential is stored, "Configure\nAutomation" when
\* they hold none and no credential is stored.
C8_BaselineTitle ==
    [][/\ \A i \in Instances :
              (onWillAppear(i) /\ ~Partial(settings[i])) =>
                  title'[i] = Baseline(settings[i], apiKey)
       /\ \A i \in Instances, s \in SettingsSet :
              (onDidReceiveSettings(i, s) /\ HasAutomationRef(s)) =>
                  title'[i] = Baseline(s, apiKey)
       /\ \A h \in DOMAIN tasks :
              (SettingsSetTitle(h) /\ ~Partial(tasks[h].settings)) =>
                  title'[tasks[h].inst] = Baseline(tasks[h].settings, apiKey)]_vars

\* C9: with only one of automationId and automationName every handler does
\* what it does with neither: appear and settings-changed set the same title,
\* settings-changed takes the same catalog-fetch decision, key-up the same
\* branch without a trigger call.
C9_PartialIsUnconfigured ==
    [][/\ \A i \in Instances :
              (onWillAppear(i) /\ Partial(settings[i])) =>
                  title'[i] = AppearTitle(NoSettings)
       /\ \A i \in Instances, s \in SettingsSet :
              (onDidReceiveSettings(i, s) /\ Partial(s)) => title' = title
       /\ \A h \in DOMAIN tasks :
              (SettingsSetTitle(h) /\ Partial(tasks[h].settings)) =>
                  title'[tasks[h].inst] = SettingsTitle(NoSettings, apiKey)
       /\ \A h \in DOMAIN tasks :
              (SettingsApiKey(h) /\ Partial(tasks[h].settings)) =>
                  ((out'.net # NoNet) <=> SettingsFetches(NoSettings, apiKey))
       /\ \A h \in DOMAIN tasks :
              (KeyUpApiKey(h) /\ Partial(tasks[h].settings)) =>
                  /\ title'[tasks[h].inst] = KeyUpTitle(NoSettings, apiKey)
                  /\ out'.net = NoNet]_vars

\* C10: a saveApiKey message whose key fails the format check is rejected: the
\* stored credential stays as it was, no network call is issued and nothing
\* of the handler is left in flight that could still do either.
C10_InvalidSaveRejected ==
    [][\A key \in KeySamples :
          (onSendToPlugin("saveApiKey", key) /\ ~validateApiKey(key)) =>
              /\ apiKey' = apiKey
              /\ out'.net = NoNet
              /\ tasks' = tasks]_vars

\* C10 witness: a malformed key has just been rejected and the credential
\* stored before is still there
C10_Witness ==
    /\ out.error = <<"Invalid API key format">>
    /\ apiKey = GoodKey
    /\ tasks = <<>>

\* the credential an outbound call carries in its x-eeko-api-key header
Credential(call) == call[2]

\* C11: a malformed credential never reaches the network: every outbound list
\* or trigger call, whichever message or event caused it, carries a credential
\* that passes the format check.
C11_CallsCarryValidCredential ==
    out.net # NoNet => validateApiKey(Credential(out.net))

\* C12: starting with no stored credential, the stored credential is always
\* absent or well formed, and every step that changes it is the write of a
\* saveApiKey message that carries a well-formed key, to that key; so no step
\* of appear, settings-changed, key-down, key-up, disappear, testApiKey,
\* fetchAutomations or getApiKey changes it.
C12_CredentialWrittenBySaveOnly ==
    [][/\ ~Truthy(apiKey') \/ validateApiKey(apiKey')
       /\ apiKey' # apiKey =>
             \E h \in PluginTasks :
                 /\ SaveWrite(h)
                 /\ validateApiKey(tasks[h].apiKey)
                 /\ apiKey' = tasks[h].apiKey]_vars

\* C12 witness: a credential has been saved and a key-up has triggered with it
C12_Witness ==
    /\ apiKey = GoodKey
    /\ \E t \in DOMAIN timers :
          timers[t].kind = "success" /\ title[timers[t].inst] # TriggeredTitle(<<>>)

\* the relays that carry an error string, and the string
ErrorRelays == {"apiKeyTested", "automationsError", "apiKeyError"}
RelayedError(relay) == IF relay[1] = "apiKeyTested" THEN relay[3] ELSE relay[2]
Statuses == {r.status : r \in {x \in Responses : x.kind = "response"}}
\* the fixed human-readable messages, some with the HTTP status
SanitizedMessages ==
    {<<"Connection error - check your internet connection">>,
     <<"Invalid or expired API key">>,
     <<"API key does not have required permissions">>,
     <<"Failed to load automations">>}
    \cup {<<"API error: ", ToString(st)>> : st \in Statuses}
    \cup {<<"Failed to fetch automations: ", ToString(st)>> : st \in Statuses}
    \cup {<<"API key validation failed: ", ToString(st)>> : st \in Statuses}

\* C13: every error string relayed to the property inspector in apiKeyTested,
\* automationsError or apiKeyError is one of the fixed messages, with the
\* HTTP status where it has one, and never the message of a caught exception:
\* for a status that is not ok, for a rejected call and for a body that
\* cannot be read.
C13_RelayedErrorsSanitized ==
    (out.relay # NoRelay /\ out.relay[1] \in ErrorRelays /\ Truthy(RelayedError(out.relay)))
        => RelayedError(out.relay) \in SanitizedMessages

\* what C14 says of a string: 11 to 199 characters, each of [A-Za-z0-9_-]
WellFormed(key) ==
    /\ Len(key) \in 11..199
    /\ \A j \in 1..Len(key) : key[j] \in KeyChars

C15_SaveValidatesPersistsTests ==
    [][/\ \A key \in KeySamples :
              (onSendToPlugin("saveApiKey", key) /\ validateApiKey(key)) =>
                  /\ apiKey' = apiKey
                  /\ out'.net = NoNet
                  /\ \E h \in DOMAIN tasks' \ DOMAIN tasks : tasks'[h].pc = "saveRead"
       /\ \A h \in DOMAIN tasks :
              /\ SaveWrite(h) =>
                    /\ tasks[h].pc = "saveRead"
                    /\ validateApiKey(tasks[h].apiKey)
                    /\ apiKey' = tasks[h].apiKey
                    /\ out'.net = NoNet
              /\ (h \in DOMAIN tasks' /\ tasks'[h].pc = "saveWritten" /\ tasks[h].pc # "saveWritten")
                    => (SaveWrite(h) /\ apiKey' = tasks'[h].apiKey)
              /\ SaveTest(h) =>
                    /\ tasks[h].pc = "saveWritten"
                    /\ out'.net = ListCall(tasks[h].apiKey)
                    /\ apiKey' = apiKey
              /\ \A resp \in Responses :
                    (TestResponse(h, resp) \/ FetchResponse(h, resp)) => apiKey' = apiKey
              /\ \A body \in Bodies : FetchJson(h, body) => apiKey' = apiKey]_vars

\* C15 witness: the test of a saved key has just failed to connect and the key
\* is still the stored credential
C15_Witness ==
    /\ out.relay = <<"apiKeyTested", FALSE, ConnectionError>>
    /\ apiKey = GoodKey
    /\ tasks = <<>>

\* a list call that came back with a 2xx status
Succeeded(resp) == resp.kind = "response" /\ resp.status \in 200..299

\* C16: a testApiKey message with a key issues one list call; when that call
\* settles the handler relays apiKeyTested once, and no other step relays it.
\* A second list call, the catalog fetch, is issued if and only if the first
\* succeeded, by the step that relays apiKeyTested{valid: true}; it is answered
\* in a later step by one automationsLoaded or one automationsError, after
\* which the handler is done.  When the test fails the handler is done with
\* the apiKeyTested relay and issues no call.  Every test in flight leads to
\* its apiKeyTested relay and every catalog fetch in flight to its answer.
C16_TestThenFetch ==
    [][/\ \A key \in KeySamples :
              (onSendToPlugin("testApiKey", key) /\ Truthy(key)) =>
                  /\ out'.net = ListCall(key)
                  /\ out'.relay = NoRelay
                  /\ \E h \in DOMAIN tasks' \ DOMAIN tasks :
                        tasks'[h].pc = "testResponse" /\ tasks'[h].apiKey = key
       /\ (out'.relay # NoRelay /\ out'.relay[1] = "apiKeyTested") =>
              \E h \in DOMAIN tasks, resp \in Responses : TestResponse(h, resp)
       /\ \A h \in DOMAIN tasks, resp \in Responses :
              /\ TestResponse(h, resp) =>
                    /\ out'.relay[1] = "apiKeyTested"
                    /\ out'.relay[2] = Succeeded(resp)
                    /\ IF Succeeded(resp)
                       THEN /\ out'.net = ListCall(tasks[h].apiKey)
                            /\ tasks'[h].pc = "fetchResponse"
                       ELSE /\ out'.net = NoNet
                            /\ h \notin DOMAIN tasks'
              /\ FetchResponse(h, resp) =>
                    /\ out'.net = NoNet
                    /\ IF Succeeded(resp)
                       THEN out'.relay = NoRelay /\ tasks'[h].pc = "fetchJson"
                       ELSE out'.relay[1] = "automationsError" /\ h \notin DOMAIN tasks'
       /\ \A h \in DOMAIN tasks, body \in Bodies :
              FetchJson(h, body) =>
                  /\ out'.net = NoNet
                  /\ out'.relay[1] \in {"automationsLoaded", "automationsError"}
                  /\ h \notin DOMAIN tasks']_vars
    /\ \A h \in 1..MaxHandlers :
          /\ (h \in PluginTasks /\ tasks[h].pc = "testResponse")
                ~> (out.relay # NoRelay /\ out.relay[1] = "apiKeyTested")
          /\ (h \in PluginTasks /\ tasks[h].pc = "fetchResponse")
                ~> (out.relay # NoRelay
                      /\ out.relay[1] \in {"automationsLoaded", "automationsError"})

\* C16 witness: with nothing saved, a tested key has just been reported valid
\* and the catalog fetch for it is in flight
C16_Witness ==
    /\ apiKey = Undefined
    /\ out.relay = <<"apiKeyTested", TRUE, Undefined>>
    /\ out.net = ListCall(GoodKey)
    /\ \E h \in PluginTasks : tasks[h].pc = "fetchResponse" /\ tasks[h].apiKey = GoodKey

\* C17: a key-up issues at most one trigger call and never retries it.  The
\* step in which the credential read returns issues the call exactly when a
\* credential is stored and automationId and automationName are both set; it
\* carries the credential that read returned and the automationId, and the
\* title is set to "Triggering\n<name>" in the step that issues it.  No later
\* step of the key-up issues a call, whatever the outcome of the first, and
\* the reset callbacks issue none.
C17_OneTriggerCall ==
    [][/\ \A i \in Instances : onKeyUp(i) => out'.net = NoNet
       /\ \A h \in DOMAIN tasks :
              KeyUpApiKey(h) =>
                  IF Truthy(apiKey) /\ HasAutomationRef(tasks[h].settings)
                  THEN /\ out'.net = <<"POST /api/triggers/streamdeck", apiKey,
                                       tasks[h].settings.automationId>>
                       /\ title'[tasks[h].inst] =
                             <<"Triggering\n">> \o tasks[h].settings.automationName
                       /\ tasks'[h].pc = "response"
                       /\ tasks'[h].apiKey = apiKey
                  ELSE out'.net = NoNet /\ h \notin DOMAIN tasks'
       /\ \A h \in DOMAIN tasks, resp \in Responses :
              KeyUpResponse(h, resp) => (out'.net = NoNet /\ h \notin DOMAIN tasks')
       /\ \A t \in DOMAIN timers : Reset(t) => out'.net = NoNet]_vars

\* C17 witness: the trigger call of a key-up has just failed and the handler
\* has ended without a second call
C17_Witness ==
    /\ out.net = NoNet
    /\ KeyUpTasks = {}
    /\ \E t \in DOMAIN timers :
          /\ timers[t].kind = "error"
          /\ timers[t].elapsed = 0
          /\ HasAutomationRef(timers[t].settings)
          /\ title[timers[t].inst] = ErrorTitle(<<"Failed">>)

\* the reset a completing key-up has registered, and nothing else changed
OneResetAdded(kind, inst) ==
    /\ Cardinality(NewTimers) = 1
    /\ Cardinality(DOMAIN timers') = Cardinality(DOMAIN timers) + 1
    /\ \A t \in NewTimers :
          /\ t \in timeoutHandles'
          /\ timers'[t].kind = kind
          /\ timers'[t].inst = inst
          /\ timers'[t].elapsed = 0
    /\ \A t \in DOMAIN timers : t \in DOMAIN timers' /\ timers'[t] = timers[t]
    /\ timeoutHandles \subseteq timeoutHandles'

\* C18: the step in which a key-up handler ends registers exactly one new
\* reset, on each of its four paths (missing credential, no automation
\* selected, trigger success, trigger failure), and leaves every reset already
\* pending as it was, pending and registered; the steps in which it does not
\* end touch no reset.  So every key-up that ends while k resets are pending
\* leaves k + 1 pending.
C18_EachKeyUpAddsOneReset ==
    [][/\ \A i \in Instances : onKeyUp(i) => UNCHANGED <<timers, timeoutHandles>>
       /\ \A h \in DOMAIN tasks :
              KeyUpApiKey(h) =>
                  IF h \in DOMAIN tasks'
                  THEN UNCHANGED <<timers, timeoutHandles>>
                  ELSE OneResetAdded(IF Truthy(apiKey) THEN "noAutomation" ELSE "missingKey",
                                     tasks[h].inst)
       /\ \A h \in DOMAIN tasks, resp \in Responses :
              KeyUpResponse(h, resp) =>
                  /\ h \notin DOMAIN tasks'
                  /\ OneResetAdded(IF Succeeded(resp) THEN "success" ELSE "error",
                                   tasks[h].inst)]_vars

\* C18 witness: two key-ups of one instance have ended within the shortest
\* reset delay, and two resets are pending
C18_Witness ==
    \E t1, t2 \in DOMAIN timers :
        /\ t1 # t2
        /\ timers[t1].inst = timers[t2].inst
        /\ timers[t1].kind = "success"
        /\ timers[t2].kind = "error"
        /\ timers[t1].elapsed < SuccessResetDelay
        /\ timers[t2].elapsed < timers[t1].elapsed
        /\ {t1, t2} \subseteq timeoutHandles

\* C19: in every state the handles in timeoutHandles are exactly the resets
\* that are scheduled and have neither run nor been cancelled: each pending
\* reset is registered, so a disappear cancels it, and with no reset pending
\* the set is empty.  A handle leaves the set only when its own callback runs
\* or in a cleanup, and a callback removes its own handle and no other.
C19_HandlesArePendingResets ==
    [][/\ timeoutHandles = DOMAIN timers
       /\ timeoutHandles' = DOMAIN timers'
       /\ \A t \in timeoutHandles \ timeoutHandles' :
              Reset(t) \/ \E i \in Instances : onWillDisappear(i)
       /\ \A t \in DOMAIN timers :
              Reset(t) => (timeoutHandles' = timeoutHandles \ {t} /\ t \notin DOMAIN timers')
       /\ \A i \in Instances :
              onWillDisappear(i) =>
                  /\ timeoutHandles' = {}
                  /\ \A t \in timeoutHandles : t \notin DOMAIN timers']_vars

\* C19 witness: of two resets that were pending, the first has left the set
\* and the second is still pending and registered
C19_Witness ==
    /\ DOMAIN timers = {2}
    /\ timeoutHandles = {2}
    /\ visible[timers[2].inst]

\* C20: whenever a reset callback leaves a visible instance with no handler
\* in flight and no reset pending, the title of the instance is the baseline
\* for its current settings and the stored credential, and its image is the
\* default image.
C20_QuiescentShowsBaseline ==
    [][\A t \in DOMAIN timers :
          (/\ Reset(t)
           /\ visible[timers[t].inst]
           /\ TimersOf(timers[t].inst) = {t}
           /\ TasksOf(timers[t].inst) = {}) =>
              /\ title'[timers[t].inst] = Baseline(settings[timers[t].inst], apiKey)
              /\ image'[timers[t].inst] = DefaultImage]_vars

====
